---- MODULE Spec2Model ----
(***************************************************************************)
(* A model of the Flask service of src/main.py: the four routes            *)
(* POST /upload, GET /api/teams, DELETE /clean_uploads and POST /detect,   *)
(* the staging directory they share and the external calls they make.      *)
(* Requests are handled by threads (Flask's default server is threaded),   *)
(* so a handler is a sequence of steps cut at each access to the file      *)
(* system or to an external service.                                       *)
(*                                                                         *)
(* Text is a sequence of tokens: a token is a run of characters that no    *)
(* test of the program cuts ("/", ".", "pdf", "401", ...).                   *)
(***************************************************************************)
EXTENDS Integers, Sequences, FiniteSets, TLC

VARIABLES
    folderExists,   \* whether the directory UPLOAD_FOLDER exists
    apiKey,         \* LLAMA_CLOUD_API_KEY, read once at module load
    fs,             \* the regular files: location -> content
    upc,            \* uploader -> position in upload_file
    ureq,           \* uploader -> the request it is handling / handled last
    uresp,          \* uploader -> the last response of upload_file
    uparsed,        \* uploader -> parser.parse was called for the request
    ulost,          \* uploader -> a clean removed its staged file after the save
    umissed,        \* uploader -> the staged file was absent when it was read
    uresult,        \* uploader -> what the try block got: the parse result, or
                    \* the exception it caught
    cpc,            \* cleaner -> position in clean_uploads
    clisting,       \* cleaner -> the result of os.listdir
    cidx,           \* cleaner -> index of the name of the listing in turn
    cdeleted,       \* cleaner -> deleted_files (the three as the last clean left them)
    cresp,          \* cleaner -> the last response of clean_uploads
    cdisturbed,     \* cleaner -> another request changed staging since the listing
    store,          \* the teams collection and the problemstatements collection
    tresp,          \* the last response of get_teams
    dresp           \* the last response of detect

uvars == <<upc, ureq, uresp, uparsed, ulost, umissed, uresult>>
cvars == <<cpc, clisting, cidx, cdeleted, cresp, cdisturbed>>
envvars == <<folderExists, apiKey>>
vars == <<folderExists, apiKey, fs, upc, ureq, uresp, uparsed, ulost, umissed, uresult,
          cpc, clisting, cidx, cdeleted, cresp, cdisturbed, store, tresp, dresp>>

----------------------------------------------------------------------------
(* Bounds of the model. *)

\* the most image documents one parse returns
MaxImages == 2
\* the most team records in the store
MaxTeams == 2
\* the most tasks of one team record
MaxTasks == 2

----------------------------------------------------------------------------
(* Generic helpers. *)

Range(s) == {s[i] : i \in 1..Len(s)}

SeqsUpTo(S, n) == UNION {[1..k -> S] : k \in 0..n}

\* every ordering of a finite set, as sequences without repetition
Orderings(S) == {s \in [1..Cardinality(S) -> S] : Range(s) = S}

Restrict(f, D) == [x \in D |-> f[x]]

\* s.endswith(suffix)
EndsWith(s, suffix) ==
    /\ Len(s) >= Len(suffix)
    /\ SubSeq(s, Len(s) - Len(suffix) + 1, Len(s)) = suffix

\* tok in s, for a token that no other token contains
Contains(s, tok) == \E i \in 1..Len(s) : s[i] = tok

\* the greatest index of tok in s, 0 when absent (str.rfind, 1-based)
RFind(s, tok) ==
    LET I == {i \in 1..Len(s) : s[i] = tok}
    IN  IF I = {} THEN 0 ELSE CHOOSE i \in I : \A j \in I : j <= i

----------------------------------------------------------------------------
(* File names and paths. *)

UPLOAD_FOLDER == <<"uploads">>

\* the file names a client sends: a.pdf, b.PNG, .png, a.txt, ../a.pdf,
\* /a.pdf, sub/a.pdf and the empty name
APdf == <<"a", ".", "pdf">>
BPng == <<"b", ".", "PNG">>
DotPng == <<".", "png">>
ATxt == <<"a", ".", "txt">>
UpAPdf == <<".", ".", "/", "a", ".", "pdf">>
RootAPdf == <<"/", "a", ".", "pdf">>
SubAPdf == <<"sub", "/", "a", ".", "pdf">>

FileNames == {<<>>, APdf, BPng, DotPng, ATxt, UpAPdf, RootAPdf, SubAPdf}

MAX_SIZE == 20 * 1024 * 1024

\* str.lower on a token
LowerTok(t) == IF t = "PNG" THEN "png" ELSE IF t = "PDF" THEN "pdf" ELSE t

\* str.lower
Lower(s) == [i \in 1..Len(s) |-> LowerTok(s[i])]

allowed_ext ==
    { <<".", "ppt">>, <<".", "pptx">>, <<".", "pdf">>,
      <<".", "png">>, <<".", "jpg">>, <<".", "jpeg">> }

ImageExts == { <<".", "png">>, <<".", "jpg">>, <<".", "jpeg">> }

\* file.filename.lower().endswith(allowed_ext)
AllowedType[filename \in FileNames] ==
    \E e \in allowed_ext : EndsWith(Lower(filename), e)

\* os.path.splitext(p)[1]: the extension starts at the last dot of the last
\* component, unless only dots precede it there
SplitExt(p) ==
    LET sepIndex == RFind(p, "/")
        dotIndex == RFind(p, ".")
    IN  IF /\ dotIndex > sepIndex
           /\ \E k \in (sepIndex + 1)..(dotIndex - 1) : p[k] # "."
        THEN SubSeq(p, dotIndex, Len(p))
        ELSE <<>>

\* os.path.join(a, b): an absolute b discards a
PathJoin(a, b) ==
    IF b # <<>> /\ b[1] = "/" THEN b ELSE a \o <<"/">> \o b

\* the components of a path, cut at each "/"
RECURSIVE Components(_)
Components(p) ==
    IF ~Contains(p, "/") THEN <<p>>
    ELSE LET i == CHOOSE k \in 1..Len(p) :
                      p[k] = "/" /\ \A j \in 1..(k - 1) : p[j] # "/"
         IN  <<SubSeq(p, 1, i - 1)>> \o Components(SubSeq(p, i + 1, Len(p)))

\* A location of the file system, as the kernel resolves a path from the
\* working directory: abs (from the root), up (levels above the working
\* directory), comps (the names walked down from there).
RECURSIVE Walk(_, _)
Walk(loc, cs) ==
    IF cs = <<>> THEN loc
    ELSE LET c == Head(cs)
             next ==
                 IF c = <<>> \/ c = <<".">> THEN loc
                 ELSE IF c = <<".", ".">> THEN
                     IF loc.comps # <<>>
                         THEN [loc EXCEPT !.comps = SubSeq(@, 1, Len(@) - 1)]
                     ELSE IF loc.abs THEN loc
                     ELSE [loc EXCEPT !.up = @ + 1]
                 ELSE [loc EXCEPT !.comps = Append(@, c)]
         IN  Walk(next, Tail(cs))

Resolve(p) ==
    Walk([abs |-> (p # <<>> /\ p[1] = "/"), up |-> 0, comps |-> <<>>],
         Components(p))

\* the directory a location lies in
Parent(loc) == [loc EXCEPT !.comps = SubSeq(@, 1, Len(@) - 1)]

StagingDir == Resolve(UPLOAD_FOLDER)

\* the location lies below the staging directory
InStaging(loc) ==
    /\ loc.abs = StagingDir.abs
    /\ loc.up = StagingDir.up
    /\ Len(loc.comps) > Len(StagingDir.comps)
    /\ SubSeq(loc.comps, 1, Len(StagingDir.comps)) = StagingDir.comps

\* the directories: the working directory, its ancestors, the root, and the
\* staging directory while it exists; the program creates no other
IsDir(loc, folder) ==
    \/ loc.comps = <<>>
    \/ (folder /\ loc = StagingDir)

\* the regular files of the staging directory
StagedFiles(files) == {l \in DOMAIN files : InStaging(l)}

\* os.listdir(UPLOAD_FOLDER), as a set: the names directly in the directory
ListDir(files) ==
    {l.comps[Len(l.comps)] : l \in {k \in DOMAIN files : Parent(k) = StagingDir}}

----------------------------------------------------------------------------
(* Values. *)

Uploaders == {"u1", "u2"}
Cleaners == {"c1", "c2"}

\* jsonify(body), status
Json(status, body) == [status |-> status, body |-> body]

\* no response yet
NoResp == [status |-> 0, body |-> <<>>]

NoReq == [hasFile |-> FALSE, filename |-> <<>>, content |-> [id |-> 0, len |-> 0]]

\* base64.b64encode(bytes).decode('utf-8')
B64(bytes) == <<"base64", bytes>>

\* the text of a path, as str(e) of an OSError quotes it
FileNotFoundMsg(path) == <<"[Errno 2] No such file or directory: ">> \o path

TB == "Traceback (most recent call last): ..."

\* no parse result and no exception
NoResult == [kind |-> "none"]

\* an exception with message msg
Raise(msg) == [kind |-> "raise", msg |-> msg, images |-> <<>>, pages |-> <<>>, docs |-> <<>>]

----------------------------------------------------------------------------
(* POST /upload: upload_file. *)

\* the validator without the size ceiling
ValidationErrorNoSize(r) ==
    IF ~r.hasFile THEN "No file part in the request."
    ELSE IF r.filename = <<>> THEN "No file selected for upload."
    ELSE IF ~AllowedType[r.filename]
        THEN "Invalid file type. Only PPT, PPTX, PDF, PNG, JPG, or JPEG allowed."
    ELSE "ok"

\* the validator without the type test
ValidationErrorNoType(r) ==
    IF ~r.hasFile THEN "No file part in the request."
    ELSE IF r.filename = <<>> THEN "No file selected for upload."
    ELSE IF r.content.len > MAX_SIZE THEN "File too large. Max size is 20MB."
    ELSE "ok"

\* lines 41-54: the message of the 400 response, "ok" when the request passes
ValidationError(r) ==
    IF ~r.hasFile THEN "No file part in the request."
    ELSE IF r.filename = <<>> THEN "No file selected for upload."
    ELSE IF ~AllowedType[r.filename]
        THEN "Invalid file type. Only PPT, PPTX, PDF, PNG, JPG, or JPEG allowed."
    ELSE IF r.content.len > MAX_SIZE THEN "File too large. Max size is 20MB."
    ELSE "ok"

\* line 57: filepath
FilePath(filename) == PathJoin(UPLOAD_FOLDER, filename)

\* where file.save(filepath) writes
SavedAt[filename \in FileNames] == Resolve(FilePath(filename))

\* open(path, 'wb') can succeed: the directory exists, the path is no directory
CanWrite(loc, folder) == ~IsDir(loc, folder) /\ IsDir(Parent(loc), folder)

\* file.save: the file is created, or truncated and rewritten
WriteFile(files, loc, content) ==
    [l \in DOMAIN files \cup {loc} |-> IF l = loc THEN content ELSE files[l]]

\* the classifier with the auth rule tried first
ClassifyErrorAuthFirst(err_msg, tb) ==
    IF \/ Contains(err_msg, "401")
       \/ Contains(err_msg, "Unauthorized")
       \/ Contains(err_msg, "Invalid token format")
    THEN Json(401, [error |-> "LlamaParse API key is invalid or expired.",
                    suggestions |-> <<"Check your API key",
                                      "Generate a new API key from LlamaIndex Cloud",
                                      "Set the correct key in your code or environment variable">>,
                    traceback |-> tb])
    ELSE IF \/ Contains(err_msg, "DNS resolution failed")
            \/ Contains(err_msg, "Name or service not known")
    THEN Json(500, [error |-> "DNS resolution failed. Cannot reach LlamaParse API.",
                    suggestions |-> <<"Check your internet connection",
                                      "Try changing DNS to 8.8.8.8 or 1.1.1.1",
                                      "Flush DNS cache: ipconfig /flushdns",
                                      "Check firewall settings">>,
                    traceback |-> tb])
    ELSE Json(500, [error |-> "LlamaParse Python client failed",
                    py_error |-> err_msg, traceback |-> tb])

\* lines 124-153: the response to an exception of the try block
ClassifyError(err_msg, tb) ==
    IF \/ Contains(err_msg, "DNS resolution failed")
       \/ Contains(err_msg, "Name or service not known")
    THEN Json(500, [error |-> "DNS resolution failed. Cannot reach LlamaParse API.",
                    suggestions |-> <<"Check your internet connection",
                                      "Try changing DNS to 8.8.8.8 or 1.1.1.1",
                                      "Flush DNS cache: ipconfig /flushdns",
                                      "Check firewall settings">>,
                    traceback |-> tb])
    ELSE IF \/ Contains(err_msg, "401")
            \/ Contains(err_msg, "Unauthorized")
            \/ Contains(err_msg, "Invalid token format")
    THEN Json(401, [error |-> "LlamaParse API key is invalid or expired.",
                    suggestions |-> <<"Check your API key",
                                      "Generate a new API key from LlamaIndex Cloud",
                                      "Set the correct key in your code or environment variable">>,
                    traceback |-> tb])
    ELSE Json(500, [error |-> "LlamaParse Python client failed",
                    py_error |-> err_msg, traceback |-> tb])

\* getattr(obj, name, default)
GetAttr(obj, name, default) == IF name \in DOMAIN obj THEN obj[name] ELSE default

\* lines 84-90: images_info
ImagesInfo(image_documents) ==
    [i \in 1..Len(image_documents) |->
        [image_base64 |-> B64(image_documents[i].image_bytes),
         description |-> GetAttr(image_documents[i], "description", "")]]

\* lines 101-109: pages
PagesInfo(pages) ==
    [i \in 1..Len(pages) |->
        [text |-> GetAttr(pages[i], "text", ""),
         md |-> GetAttr(pages[i], "md", ""),
         images |-> GetAttr(pages[i], "images", <<>>),
         layout |-> GetAttr(pages[i], "layout", <<>>),
         structuredData |-> GetAttr(pages[i], "structuredData", <<>>)]]

\* line 118: markdown_strings
MarkdownStrings(docs) ==
    [i \in 1..Len(docs) |->
        IF "markdown" \in DOMAIN docs[i] THEN docs[i].markdown ELSE "str(doc)"]

\* the fallback left out
NeedsFallbackNever(images_info) == FALSE

\* line 92: not images_info
NeedsFallback(images_info) == images_info = <<>>

\* lines 93-99: the one record made of the staged file's bytes
FallbackImage(img_bytes) ==
    [image_base64 |-> B64(img_bytes),
     description |-> "Uploaded image (no description from parser)"]

\* lines 110-114
ImageResponse(images_info, pages) ==
    Json(200, [message |-> "Image uploaded and parsed successfully",
               images |-> images_info,
               pages |-> pages])

\* lines 119-122
DocumentResponse(markdown_strings) ==
    Json(200, [message |-> "File uploaded and parsed successfully",
               markdown_documents |-> markdown_strings])

\* a missing file read as an empty one
ReadFileLenient(files, loc) ==
    IF loc \in DOMAIN files THEN [found |-> TRUE, bytes |-> files[loc].id]
    ELSE [found |-> TRUE, bytes |-> 0]

\* open(path, 'rb').read(): the bytes, or FileNotFoundError
ReadFile(files, loc) ==
    IF loc \in DOMAIN files THEN [found |-> TRUE, bytes |-> files[loc].id]
    ELSE [found |-> FALSE, bytes |-> 0]

\* the cleaners between their listing and their return see staging change
Disturb(loc) ==
    [c \in Cleaners |-> cdisturbed[c] \/ (cpc[c] = "deleting" /\ InStaging(loc))]

\* lines 40-65: validation, save and the API key test.  Nothing before the
\* save reads or writes shared state, so the step is the save.
UploadReceive(u, r, saveFails) ==
    /\ upc[u] = "idle"
    /\ ureq' = [ureq EXCEPT ![u] = r]
    /\ uparsed' = [uparsed EXCEPT ![u] = FALSE]
    /\ ulost' = [ulost EXCEPT ![u] = FALSE]
    /\ umissed' = [umissed EXCEPT ![u] = FALSE]
    /\ uresult' = [uresult EXCEPT ![u] = NoResult]
    /\ LET err == ValidationError(r)
           loc == SavedAt[r.filename]
       IN  IF err # "ok" THEN
               /\ uresp' = [uresp EXCEPT ![u] = Json(400, [error |-> err])]
               /\ UNCHANGED <<fs, upc, cdisturbed>>
           ELSE IF saveFails \/ ~CanWrite(loc, folderExists) THEN
               /\ uresp' = [uresp EXCEPT ![u] =
                      Json(500, [error |-> "Failed to save file.",
                                 details |-> "str(e)"])]
               /\ UNCHANGED <<fs, upc, cdisturbed>>
           ELSE
               /\ fs' = WriteFile(fs, loc, r.content)
               /\ cdisturbed' = Disturb(loc)
               /\ IF ~apiKey THEN
                      /\ uresp' = [uresp EXCEPT ![u] =
                             Json(500, [error |->
                                 "LlamaParse API key not set in environment."])]
                      /\ UNCHANGED upc
                  ELSE
                      /\ upc' = [upc EXCEPT ![u] = "parse"]
                      /\ uresp' = [uresp EXCEPT ![u] = NoResp]
    /\ UNCHANGED <<envvars, cpc, clisting, cidx, cdeleted, cresp, store, tresp, dresp>>

\* lines 74-122 up to the fallback: parser.parse reads the staged file and
\* calls the service; outcome is what the service answers
UploadParse(u, outcome) ==
    /\ upc[u] = "parse"
    /\ uparsed' = [uparsed EXCEPT ![u] = TRUE]
    /\ umissed' = [umissed EXCEPT ![u] = SavedAt[ureq[u].filename] \notin DOMAIN fs]
    /\ LET filename == ureq[u].filename
           file == ReadFile(fs, SavedAt[filename])
           ext == Lower(SplitExt(filename))
           images_info == ImagesInfo(outcome.images)
           missing == FileNotFoundMsg(FilePath(filename))
       IN  IF ~file.found THEN
               /\ uresult' = [uresult EXCEPT ![u] = Raise(missing)]
               /\ uresp' = [uresp EXCEPT ![u] = ClassifyError(missing, TB)]
               /\ upc' = [upc EXCEPT ![u] = "idle"]
           ELSE IF outcome.kind = "raise" THEN
               /\ uresult' = [uresult EXCEPT ![u] = outcome]
               /\ uresp' = [uresp EXCEPT ![u] = ClassifyError(outcome.msg, TB)]
               /\ upc' = [upc EXCEPT ![u] = "idle"]
           ELSE IF ext \in ImageExts THEN
               /\ uresult' = [uresult EXCEPT ![u] = outcome]
               /\ IF NeedsFallback(images_info) THEN
                      /\ upc' = [upc EXCEPT ![u] = "fallback"]
                      /\ UNCHANGED uresp
                  ELSE
                      /\ uresp' = [uresp EXCEPT ![u] =
                             ImageResponse(images_info, PagesInfo(outcome.pages))]
                      /\ upc' = [upc EXCEPT ![u] = "idle"]
           ELSE
               /\ uresult' = [uresult EXCEPT ![u] = outcome]
               /\ uresp' = [uresp EXCEPT ![u] =
                      DocumentResponse(MarkdownStrings(outcome.docs))]
               /\ upc' = [upc EXCEPT ![u] = "idle"]
    /\ UNCHANGED <<envvars, fs, ureq, ulost, cvars, store, tresp, dresp>>

\* lines 92-114: the staged file is read again for the one fallback record
UploadFallback(u) ==
    /\ upc[u] = "fallback"
    /\ umissed' = [umissed EXCEPT ![u] = SavedAt[ureq[u].filename] \notin DOMAIN fs]
    /\ LET filename == ureq[u].filename
           file == ReadFile(fs, SavedAt[filename])
           missing == FileNotFoundMsg(FilePath(filename))
       IN  IF ~file.found THEN
               /\ uresult' = [uresult EXCEPT ![u] = Raise(missing)]
               /\ uresp' = [uresp EXCEPT ![u] = ClassifyError(missing, TB)]
           ELSE
               /\ uresp' = [uresp EXCEPT ![u] =
                      ImageResponse(<<FallbackImage(file.bytes)>>,
                                    PagesInfo(uresult[u].pages))]
               /\ UNCHANGED uresult
    /\ upc' = [upc EXCEPT ![u] = "idle"]
    /\ UNCHANGED <<envvars, fs, ureq, uparsed, ulost, cvars, store, tresp, dresp>>

----------------------------------------------------------------------------
(* DELETE /clean_uploads: clean_uploads. *)

\* the whole directory purged instead of the one file
RemoveFileAll(files, loc) == Restrict(files, {l \in DOMAIN files : ~InStaging(l)})

\* os.remove(path)
RemoveFile(files, loc) == Restrict(files, DOMAIN files \ {loc})

\* lines 215-219: the existence test and os.listdir, in the order it returns
CleanList(c, order) ==
    /\ cpc[c] = "idle"
    /\ IF ~folderExists THEN
           /\ cresp' = [cresp EXCEPT ![c] =
                  Json(404, [message |-> "Uploads folder does not exist"])]
           /\ UNCHANGED <<cpc, clisting, cidx, cdeleted, cdisturbed>>
       ELSE
           /\ order \in Orderings(ListDir(fs))
           /\ clisting' = [clisting EXCEPT ![c] = order]
           /\ cidx' = [cidx EXCEPT ![c] = 1]
           /\ cdeleted' = [cdeleted EXCEPT ![c] = <<>>]
           /\ cdisturbed' = [cdisturbed EXCEPT ![c] = FALSE]
           /\ cpc' = [cpc EXCEPT ![c] = "deleting"]
           /\ cresp' = [cresp EXCEPT ![c] = NoResp]
    /\ UNCHANGED <<envvars, fs, uvars, store, tresp, dresp>>

\* a clean that goes on to the next name when a deletion fails
CleanStepBestEffort(c, removeFails) ==
    /\ cpc[c] = "deleting"
    /\ cidx[c] <= Len(clisting[c])
    /\ LET filename == clisting[c][cidx[c]]
           loc == SavedAt[filename]
       IN  IF loc \in DOMAIN fs /\ ~removeFails THEN
               /\ fs' = RemoveFile(fs, loc)
               /\ cdeleted' = [cdeleted EXCEPT ![c] = Append(@, filename)]
               /\ cdisturbed' = [d \in Cleaners |->
                      cdisturbed[d] \/ (d # c /\ cpc[d] = "deleting")]
               /\ ulost' = [u \in Uploaders |->
                      ulost[u] \/ (/\ upc[u] \in {"parse", "fallback"}
                                   /\ SavedAt[ureq[u].filename] = loc)]
           ELSE UNCHANGED <<fs, cdeleted, cdisturbed, ulost>>
    /\ cidx' = [cidx EXCEPT ![c] = @ + 1]
    /\ UNCHANGED <<cpc, cresp>>
    /\ UNCHANGED <<envvars, upc, ureq, uresp, uparsed, umissed, uresult,
                   clisting, store, tresp, dresp>>

\* lines 219-226: one turn of the loop (file_path is filepath of the listed
\* name); os.remove may fail
CleanStep(c, removeFails) ==
    /\ cpc[c] = "deleting"
    /\ cidx[c] <= Len(clisting[c])
    /\ LET filename == clisting[c][cidx[c]]
           loc == SavedAt[filename]
       IN  IF loc \in DOMAIN fs THEN
               IF removeFails THEN
                   /\ cresp' = [cresp EXCEPT ![c] =
                          Json(500, [error |-> <<"Error deleting ">> \o filename
                                                \o <<": ", "str(e)">>])]
                   /\ cpc' = [cpc EXCEPT ![c] = "idle"]
                   /\ UNCHANGED <<fs, clisting, cidx, cdeleted, cdisturbed, ulost>>
               ELSE
                   /\ fs' = RemoveFile(fs, loc)
                   /\ cdeleted' = [cdeleted EXCEPT ![c] = Append(@, filename)]
                   /\ cidx' = [cidx EXCEPT ![c] = @ + 1]
                   /\ cdisturbed' = [d \in Cleaners |->
                          cdisturbed[d] \/ (d # c /\ cpc[d] = "deleting")]
                   /\ ulost' = [u \in Uploaders |->
                          ulost[u] \/ (/\ upc[u] \in {"parse", "fallback"}
                                       /\ SavedAt[ureq[u].filename] = loc)]
                   /\ UNCHANGED <<cpc, cresp, clisting>>
           ELSE
               /\ cidx' = [cidx EXCEPT ![c] = @ + 1]
               /\ UNCHANGED <<fs, cpc, cresp, clisting, cdeleted, cdisturbed, ulost>>
    /\ UNCHANGED <<envvars, upc, ureq, uresp, uparsed, umissed, uresult,
                   store, tresp, dresp>>

\* lines 228-231: the loop is over
CleanReturn(c) ==
    /\ cpc[c] = "deleting"
    /\ cidx[c] > Len(clisting[c])
    /\ cresp' = [cresp EXCEPT ![c] =
           Json(200, [message |-> "Uploads folder cleaned successfully",
                      deleted_files |-> cdeleted[c]])]
    /\ cpc' = [cpc EXCEPT ![c] = "idle"]
    /\ UNCHANGED <<envvars, fs, uvars, clisting, cidx, cdeleted, cdisturbed,
                   store, tresp, dresp>>

\* The directory is created at module load and the program never removes
\* it; line 215 provides for its removal from outside (rmdir of the empty
\* directory by an operator).
FolderRemoved ==
    /\ folderExists
    /\ ListDir(fs) = {}
    /\ folderExists' = FALSE
    /\ UNCHANGED <<apiKey, fs, uvars, cvars, store, tresp, dresp>>

----------------------------------------------------------------------------
(* GET /api/teams: get_teams. *)

None == [type |-> "None"]

\* ObjectId(s) accepts s: 24 hexadecimal digits
ValidOid(s) == s \in {"ps1", "ps9"}

\* lines 165-169: ppt_links
RECURSIVE PptLinks(_)
PptLinks(tasks) ==
    IF tasks = <<>> THEN <<>>
    ELSE LET task == Head(tasks)
         IN  (IF "files" \in DOMAIN task /\ task.files # <<>>
                 THEN task.files ELSE <<>>) \o PptLinks(Tail(tasks))

\* lines 173-185: ps_id, None when there is none
PsId(ps) ==
    IF ps.type = "ObjectId" THEN ps.hex
    ELSE IF ps.type = "dict" /\ "oid" \in DOMAIN ps THEN ps.oid
    ELSE IF ps.type = "str" /\ ValidOid(ps.s) THEN ps.s
    ELSE "None"

\* lines 173-185: ps as it is returned
PsOut(ps) ==
    IF ps.type = "ObjectId" THEN [type |-> "str", s |-> ps.hex]
    ELSE IF ps.type = "dict" /\ "oid" \in DOMAIN ps THEN [type |-> "str", s |-> ps.oid]
    ELSE ps

\* line 179: ObjectId(ps['$oid']) raises on an invalid id, outside any inner try
TeamRaises(team) ==
    LET ps == GetAttr(team, "problemStatement", None)
    IN  ps.type = "dict" /\ "oid" \in DOMAIN ps /\ ~ValidOid(ps.oid)

\* lines 165-204: team_data
TeamData(team, ps_collection) ==
    LET ps == GetAttr(team, "problemStatement", None)
        ps_id == PsId(ps)
        ps_obj == IF ps_id # "None" /\ ps_id \in DOMAIN ps_collection
                  THEN ps_collection[ps_id] ELSE <<>>
    IN  [teamName |-> GetAttr(team, "teamName", "None"),
         pptLinks |-> IF "tasks" \in DOMAIN team THEN PptLinks(team.tasks) ELSE <<>>,
         problemStatement |-> PsOut(ps),
         psTitle |-> GetAttr(ps_obj, "title", "None"),
         psDescription |-> GetAttr(ps_obj, "description", "None")]

\* lines 163-205: teams_data, one record for each team of the cursor
TeamsData(teams, ps_collection) ==
    [i \in 1..Len(teams) |-> TeamData(teams[i], ps_collection)]

\* lines 156-210; unreachable stands for the store not answering
GetTeams(unreachable) ==
    /\ tresp' =
           IF unreachable \/ \E i \in 1..Len(store.teams) : TeamRaises(store.teams[i])
           THEN Json(500, [error |-> "str(e)"])
           ELSE Json(200, TeamsData(store.teams, store.problemstatements))
    /\ UNCHANGED <<envvars, fs, uvars, cvars, store, dresp>>

----------------------------------------------------------------------------
(* POST /detect: detect.  A score is in hundredths. *)

\* line 247: int(score * 10)
ScoreOutOfTen(score) == (score * 10) \div 100

\* lines 238-252; label and score are what the classifier ranks first
Detect(data, label, score) ==
    /\ dresp' =
           IF data = <<>> \/ "text" \notin DOMAIN data
           THEN Json(400, [error |-> "Invalid request. Please provide 'text' field."])
           ELSE Json(200, [label |-> label, score |-> ScoreOutOfTen(score)])
    /\ UNCHANGED <<envvars, fs, uvars, cvars, store, tresp>>

----------------------------------------------------------------------------
(* The inputs. *)

Small == [id |-> 1, len |-> 5]
AtLimit == [id |-> 2, len |-> MAX_SIZE]
TooLarge == [id |-> 3, len |-> MAX_SIZE + 1]

Requests ==
    {NoReq}
    \cup [hasFile : {TRUE}, filename : FileNames, content : {Small, TooLarge}]
    \cup [hasFile : {TRUE}, filename : {APdf, ATxt}, content : {AtLimit}]

\* the requests of the concurrent specifications
FewRequests ==
    { [hasFile |-> TRUE, filename |-> APdf, content |-> Small],
      [hasFile |-> TRUE, filename |-> APdf, content |-> AtLimit],
      [hasFile |-> TRUE, filename |-> BPng, content |-> Small],
      [hasFile |-> TRUE, filename |-> ATxt, content |-> Small] }

ErrMsgs ==
    { <<"DNS resolution failed">>,
      <<"[Errno -2] ", "Name or service not known">>,
      <<"401", " Client Error">>,
      <<"Unauthorized">>,
      <<"Invalid token format">>,
      <<"unauthorized">>,
      <<"Read timed out">>,
      <<"DNS resolution failed", ": ", "401">>,
      <<"Unauthorized", ": ", "Name or service not known">> }

ImgDocs == { [image_bytes |-> 7, description |-> "screenshot"], [image_bytes |-> 8] }

PageSeqs == { <<>>, <<[text |-> "t", md |-> "m"]>> }

DocSeqs == { <<>>, <<[markdown |-> "p1"], [markdown |-> "p2"]>>, <<[text |-> "p1"]>> }

ParseOutcomes ==
    {Raise(m) : m \in ErrMsgs}
    \cup [kind : {"ok"}, msg : {<<>>}, images : SeqsUpTo(ImgDocs, MaxImages),
          pages : PageSeqs, docs : {<<>>}]
    \cup [kind : {"ok"}, msg : {<<>>}, images : {<<>>},
          pages : {<<>>}, docs : DocSeqs]

\* the outcomes of the concurrent specifications
FewOutcomes ==
    { Raise(<<"Read timed out">>),
      [kind |-> "ok", msg |-> <<>>, images |-> <<>>,
       pages |-> <<>>, docs |-> <<[markdown |-> "p1"]>>],
      [kind |-> "ok", msg |-> <<>>, images |-> <<[image_bytes |-> 7]>>,
       pages |-> <<>>, docs |-> <<[markdown |-> "p1"]>>] }

Files == { <<>>, <<"l1">>, <<"l2", "l3">> }

TaskRecords == { [name |-> "t"] } \cup [name : {"t"}, files : Files]

ProblemStatements ==
    { None,
      [type |-> "ObjectId", hex |-> "ps1"],
      [type |-> "dict", oid |-> "ps1"],
      [type |-> "dict", oid |-> "bad"],
      [type |-> "str", s |-> "ps9"],
      [type |-> "str", s |-> "bad"] }

TeamRecords ==
    [teamName : {"alpha"}, problemStatement : ProblemStatements]
    \cup [teamName : {"alpha"}, problemStatement : ProblemStatements,
          tasks : SeqsUpTo(TaskRecords, MaxTasks)]

PsCollection == [x \in {"ps1"} |-> [title |-> "T", description |-> "D"]]

Stores ==
    [teams : SeqsUpTo(TeamRecords, MaxTeams), problemstatements : {PsCollection}]

\* the store of the specifications that are not about it
OneStore ==
    [teams |-> << [teamName |-> "alpha", problemStatement |-> None,
                   tasks |-> <<[name |-> "t", files |-> <<"l1">>]>>] >>,
     problemstatements |-> PsCollection]

DetectData == { <<>>, [other |-> "x"], [text |-> "some text"] }
Labels == {"AI-Generated", "Human-Written"}
Scores == {50, 99, 100}

----------------------------------------------------------------------------
(* The specifications. *)

\* the state after module load, lines 10-22
InitWith(S) ==
    /\ folderExists = TRUE
    /\ apiKey \in BOOLEAN
    /\ fs = <<>>
    /\ upc = [u \in Uploaders |-> "idle"]
    /\ ureq = [u \in Uploaders |-> NoReq]
    /\ uresp = [u \in Uploaders |-> NoResp]
    /\ uparsed = [u \in Uploaders |-> FALSE]
    /\ ulost = [u \in Uploaders |-> FALSE]
    /\ umissed = [u \in Uploaders |-> FALSE]
    /\ uresult = [u \in Uploaders |-> NoResult]
    /\ cpc = [c \in Cleaners |-> "idle"]
    /\ clisting = [c \in Cleaners |-> <<>>]
    /\ cidx = [c \in Cleaners |-> 0]
    /\ cdeleted = [c \in Cleaners |-> <<>>]
    /\ cresp = [c \in Cleaners |-> NoResp]
    /\ cdisturbed = [c \in Cleaners |-> FALSE]
    /\ store \in S
    /\ tresp = NoResp
    /\ dresp = NoResp

Init == InitWith({OneStore})

InitTeams == InitWith(Stores)

Upload(U, R, O) ==
    \E u \in U :
        \/ \E r \in R, saveFails \in BOOLEAN : UploadReceive(u, r, saveFails)
        \/ \E o \in O : UploadParse(u, o)
        \/ UploadFallback(u)

Clean(C) ==
    \E c \in C :
        \/ \E order \in Orderings(ListDir(fs)) : CleanList(c, order)
        \/ \E removeFails \in BOOLEAN : CleanStep(c, removeFails)
        \/ CleanReturn(c)

Teams == \E unreachable \in BOOLEAN : GetTeams(unreachable)

DetectAny(L, S) == \E d \in DetectData, l \in L, s \in S : Detect(d, l, s)

\* two uploads and a clean, concurrently
Next == Upload(Uploaders, FewRequests, FewOutcomes) \/ Clean({"c1"})

Spec == Init /\ [][Next]_vars

\* one upload and two cleans, concurrently
NextClean == Upload({"u1"}, FewRequests, FewOutcomes) \/ Clean(Cleaners)

SpecClean == Init /\ [][NextClean]_vars

\* one upload at a time, every request and every outcome of the parse
NextUpload == Upload({"u1"}, Requests, ParseOutcomes)

SpecUpload == Init /\ [][NextUpload]_vars

\* the store, every content within the bounds
NextTeams == Teams

SpecTeams == InitTeams /\ [][NextTeams]_vars

\* a clean of up to three files, one upload at a time
AbortRequests == [hasFile : {TRUE}, filename : {APdf, BPng, DotPng}, content : {Small}]

NextAbort == Upload({"u1"}, AbortRequests, FewOutcomes) \/ Clean({"c1"})

SpecAbort == Init /\ [][NextAbort]_vars

RouteRequests ==
    { NoReq,
      [hasFile |-> TRUE, filename |-> APdf, content |-> Small],
      [hasFile |-> TRUE, filename |-> BPng, content |-> Small],
      [hasFile |-> TRUE, filename |-> BPng, content |-> TooLarge] }

RouteOutcomes == { Raise(<<"Unauthorized">>), Raise(<<"Read timed out">>) } \cup FewOutcomes

\* the four routes, one request of each at a time, and the operator
NextRoutes ==
    \/ Upload({"u1"}, RouteRequests, RouteOutcomes)
    \/ Clean({"c1"})
    \/ Teams
    \/ DetectAny(Labels, {99})
    \/ FolderRemoved

SpecRoutes == Init /\ [][NextRoutes]_vars

----------------------------------------------------------------------------
(* The claims. *)

\* the step is uploader u receiving the request ureq'[u]
Received(u) ==
    /\ upc[u] = "idle"
    /\ \E saveFails \in BOOLEAN : UploadReceive(u, ureq'[u], saveFails)

\* a request the validator has to reject
C1_Invalid(r) ==
    \/ ~r.hasFile
    \/ r.filename = <<>>
    \/ ~\E e \in {"ppt", "pptx", "pdf", "png", "jpg", "jpeg"} :
            EndsWith(Lower(r.filename), <<".", e>>)
    \/ r.content.len > 20 * (2 ^ 20)

\* C1: an upload with no file part, an empty filename, a lower-cased
\* filename that ends in none of the six extensions, or more than 20*2^20
\* bytes is answered 400 in the step that receives it; that step leaves
\* every file as it was, and the request never reaches the parse call.
C1_InvalidUploadRejected ==
    [][\A u \in Uploaders :
          Received(u) /\ C1_Invalid(ureq'[u]) =>
              /\ uresp'[u].status = 400
              /\ "error" \in DOMAIN uresp'[u].body
              /\ fs' = fs
              /\ upc'[u] = "idle"
              /\ ~uparsed'[u]]_vars

\* an oversized file of an allowed type was rejected while staging held files
C1_Witness ==
    \E u \in Uploaders :
        /\ ureq[u].hasFile
        /\ AllowedType[ureq[u].filename]
        /\ ureq[u].content.len > MAX_SIZE
        /\ uresp[u].status = 400
        /\ ~uparsed[u]
        /\ StagedFiles(fs) # {}

\* C2: every file the save step has written lies inside the staging
\* directory, whatever the client called it.
C2_SavedInsideStaging == \A l \in DOMAIN fs : InStaging(l)

\* the exception matched a DNS indicator / an auth indicator
C4_Dns(m) == Contains(m, "DNS resolution failed") \/ Contains(m, "Name or service not known")
C4_Auth(m) == Contains(m, "401") \/ Contains(m, "Unauthorized") \/ Contains(m, "Invalid token format")

\* C4: the response to an exception of the parse step is decided by the
\* first rule its message matches: a DNS indicator gives the DNS error with
\* status 500, also when an auth indicator is there too; otherwise an auth
\* indicator gives the auth error with status 401 and suggestions; otherwise
\* the generic error with status 500 and the raw message.
C4_ClassifiedInOrder ==
    \A u \in Uploaders :
        upc[u] = "idle" /\ uresult[u].kind = "raise" =>
            LET m == uresult[u].msg
                r == uresp[u]
            IN  IF C4_Dns(m) THEN
                    /\ r.status = 500
                    /\ r.body.error = "DNS resolution failed. Cannot reach LlamaParse API."
                ELSE IF C4_Auth(m) THEN
                    /\ r.status = 401
                    /\ r.body.error = "LlamaParse API key is invalid or expired."
                    /\ r.body.suggestions # <<>>
                ELSE
                    /\ r.status = 500
                    /\ r.body.error = "LlamaParse Python client failed"
                    /\ r.body.py_error = m

\* an exception that matched both kinds of indicator was answered as DNS
C4_Witness ==
    \E u \in Uploaders :
        /\ upc[u] = "idle"
        /\ uresult[u].kind = "raise"
        /\ C4_Dns(uresult[u].msg) /\ C4_Auth(uresult[u].msg)
        /\ uresp[u].status = 500

\* the upload is routed as an image: the extension of line 76
C5_Image(filename) ==
    Lower(SplitExt(filename)) \in {<<".", "png">>, <<".", "jpg">>, <<".", "jpeg">>}

C3_Ok(r) == r.status \in {400, 401, 404, 500} => "error" \in DOMAIN r.body

\* C3: every response with status 400, 401, 404 or 500, of any route, is a
\* JSON object with an error field.
C3_ErrorsCarryError ==
    /\ \A u \in Uploaders : C3_Ok(uresp[u])
    /\ \A c \in Cleaners : C3_Ok(cresp[c])
    /\ C3_Ok(tresp)
    /\ C3_Ok(dresp)

\* the file links of a team record, task after task
RECURSIVE C6_Links(_)
C6_Links(tasks) ==
    IF tasks = <<>> THEN <<>>
    ELSE (IF "files" \in DOMAIN Head(tasks) THEN Head(tasks).files ELSE <<>>)
         \o C6_Links(Tail(tasks))

C6_TeamLinks(team) == IF "tasks" \in DOMAIN team THEN C6_Links(team.tasks) ELSE <<>>

\* C6: the list GET /api/teams returns holds, in the order of the store,
\* each team that has a file link, with its links in task order, and no
\* team without one.
C6_LinklessTeamsExcluded ==
    tresp.status = 200 =>
        [i \in 1..Len(tresp.body) |-> tresp.body[i].pptLinks]
            = SelectSeq([i \in 1..Len(store.teams) |-> C6_TeamLinks(store.teams[i])],
                        LAMBDA links : links # <<>>)

\* the step in which cleaner c returns 200
C7_Returns(c) == cpc[c] = "deleting" /\ cpc'[c] = "idle" /\ cresp'[c].status = 200

\* the name a staged file is listed under
C7_Name(l) == l.comps[Len(l.comps)]

\* C7 as stated: a clean in which no deletion fails returns as deleted_files
\* exactly the files that were in staging when it listed the directory,
\* and leaves staging without a regular file.
C7_CleanRemovesAll ==
    [][\A c \in Cleaners :
          C7_Returns(c) =>
              /\ Range(cresp'[c].body.deleted_files) = Range(clisting[c])
              /\ StagedFiles(fs') = {}]_vars

\* C7, amended: the same of a clean during which, from its listing to its
\* return, no other request wrote to or deleted from staging; and whatever
\* file leaves staging is a name in the listing of a clean then under way,
\* so that a clean that has returned touches nothing staged later.
C7_UndisturbedCleanRemovesAll ==
    [][/\ \A c \in Cleaners :
             C7_Returns(c) /\ ~cdisturbed[c] =>
                 /\ Range(cresp'[c].body.deleted_files) = Range(clisting[c])
                 /\ Len(cresp'[c].body.deleted_files) = Len(clisting[c])
                 /\ StagedFiles(fs') = {}
       /\ \A l \in StagedFiles(fs) \ StagedFiles(fs') :
             \E c \in Cleaners :
                 /\ cpc[c] = "deleting"
                 /\ C7_Name(l) \in Range(clisting[c])]_vars

\* an undisturbed clean has returned two names and staging is empty
C7_Witness ==
    \E c \in Cleaners :
        /\ cpc[c] = "idle"
        /\ cresp[c].status = 200
        /\ ~cdisturbed[c]
        /\ Len(cresp[c].body.deleted_files) = 2
        /\ StagedFiles(fs) = {}

\* the upload has answered its request
C8_Answered(u) == upc[u] = "idle" /\ uresp[u] # NoResp

\* a response is whole: the full result of one of the two shapes and no
\* error, or an error and no part of a result
C8_Whole(r) ==
    IF r.status = 200
    THEN /\ "error" \notin DOMAIN r.body
         /\ \/ DOMAIN r.body = {"message", "images", "pages"}
            \/ DOMAIN r.body = {"message", "markdown_documents"}
    ELSE /\ "error" \in DOMAIN r.body
         /\ DOMAIN r.body \cap {"images", "pages", "markdown_documents"} = {}

\* C8 as stated: an upload whose staged file a clean removed after the save
\* and before the upload read it never answers 200, and no upload answers
\* with a partial response.
C8_LostFileMeansError ==
    \A u \in Uploaders :
        C8_Answered(u) =>
            /\ ulost[u] => uresp[u].status # 200
            /\ C8_Whole(uresp[u])

\* C8, amended: an upload that finds its staged file absent when it reads
\* it (a clean removed it after the save and no upload of the same filename
\* has staged it again) answers with an error, never 200; the file is
\* absent at a read only if a clean removed it after the save; and no
\* upload answers with a partial response.
C8_MissingFileMeansError ==
    \A u \in Uploaders :
        /\ C8_Answered(u) =>
              /\ umissed[u] => uresp[u].status \in {401, 500} /\ ulost[u]
              /\ C8_Whole(uresp[u])
        /\ upc[u] \in {"parse", "fallback"} /\ SavedAt[ureq[u].filename] \notin DOMAIN fs
              => ulost[u]

\* a clean removed the staged image between the parse and the fallback
\* read, and the upload answered with an error
C8_Witness ==
    \E u \in Uploaders :
        /\ C8_Answered(u)
        /\ ulost[u] /\ umissed[u]
        /\ uresult[u].kind = "raise"
        /\ uparsed[u]
        /\ C5_Image(ureq[u].filename)
        /\ uresp[u].status = 500

\* a request that passes validation
C9_Valid(r) ==
    /\ r.hasFile
    /\ r.filename # <<>>
    /\ \E e \in {"ppt", "pptx", "pdf", "png", "jpg", "jpeg"} :
            EndsWith(Lower(r.filename), <<".", e>>)
    /\ r.content.len <= 20 * (2 ^ 20)

\* the step is the successful save, at l, of an upload that passed validation
C9_SavedBy(u, l) ==
    /\ C9_Valid(ureq'[u])
    /\ SavedAt[ureq'[u].filename] = l
    /\ l \in DOMAIN fs' /\ fs'[l] = ureq'[u].content
    /\ \/ upc'[u] = "parse"
       \/ uresp'[u].body = [error |-> "LlamaParse API key not set in environment."]
    /\ Received(u)

\* the step is a turn of the loop of a clean, and no step of an upload
C9_CleanedBy(c, l) ==
    /\ cpc[c] = "deleting"
    /\ clisting[c][cidx[c]] = C7_Name(l)
    /\ cdeleted'[c] = Append(cdeleted[c], C7_Name(l))
    /\ <<upc, ureq, uresp>> = <<upc', ureq', uresp'>>

\* C9 as stated: a staged file appears only through the save of an upload
\* that passed validation, its content never changes afterwards, and only a
\* clean removes it.
C9_StagedFilesImmutable ==
    [][/\ \A l \in StagedFiles(fs') \ StagedFiles(fs) : \E u \in Uploaders : C9_SavedBy(u, l)
       /\ \A l \in StagedFiles(fs') \cap StagedFiles(fs) : fs'[l] = fs[l]
       /\ \A l \in StagedFiles(fs) \ StagedFiles(fs') : \E c \in Cleaners : C9_CleanedBy(c, l)]_vars

\* C9, amended: a staged file appears only through the save of an upload
\* that passed validation; its content changes only through such a save of
\* the same filename, which overwrites it (the later write wins); and only
\* a clean removes it, never an upload.
C9_StagedFilesLifecycle ==
    [][/\ \A l \in StagedFiles(fs') \ StagedFiles(fs) : \E u \in Uploaders : C9_SavedBy(u, l)
       /\ \A l \in StagedFiles(fs') \cap StagedFiles(fs) :
             fs'[l] # fs[l] => \E u \in Uploaders : C9_SavedBy(u, l)
       /\ \A l \in StagedFiles(fs) \ StagedFiles(fs') : \E c \in Cleaners : C9_CleanedBy(c, l)]_vars

\* two uploads of one filename and different contents are both past the
\* save: the later write has replaced the earlier
C9_Witness ==
    \E u, v \in Uploaders :
        /\ u # v
        /\ upc[u] = "parse" /\ upc[v] = "parse"
        /\ ureq[u].filename = ureq[v].filename
        /\ ureq[u].content # ureq[v].content
        /\ fs[SavedAt[ureq[u].filename]] = ureq[u].content

\* the turn of cleaner c is on a file that exists
C10_OnFile(c) ==
    /\ cpc[c] = "deleting"
    /\ cidx[c] <= Len(clisting[c])
    /\ SavedAt[clisting[c][cidx[c]]] \in DOMAIN fs

\* C10: when the deletion of a file fails, the clean stops there: it
\* answers 500 with the name of that file and no deleted_files, deletes
\* nothing more and restores nothing.
C10_AbortsOnFirstFailure ==
    [][\A c \in Cleaners :
          C10_OnFile(c) /\ CleanStep(c, TRUE) =>
              /\ cpc'[c] = "idle"
              /\ cresp'[c].status = 500
              /\ "error" \in DOMAIN cresp'[c].body
              /\ \E i \in 1..Len(cresp'[c].body.error) :
                     SubSeq(cresp'[c].body.error, i, i + Len(clisting[c][cidx[c]]) - 1)
                         = clisting[c][cidx[c]]
              /\ "deleted_files" \notin DOMAIN cresp'[c].body
              /\ fs' = fs]_vars

\* the second of three deletions failed: the first file is gone, the
\* second and the third are still there
C10_Witness ==
    \E c \in Cleaners :
        /\ cpc[c] = "idle"
        /\ cresp[c].status = 500
        /\ Len(clisting[c]) = 3
        /\ cidx[c] = 2
        /\ cdeleted[c] = <<clisting[c][1]>>
        /\ SavedAt[clisting[c][1]] \notin DOMAIN fs
        /\ SavedAt[clisting[c][2]] \in DOMAIN fs
        /\ SavedAt[clisting[c][3]] \in DOMAIN fs

====
